---- MODULE Spec2Model ----
(***************************************************************************)
(* Model of src/layer_utils/vector_layer.py: the layer validator, the      *)
(* velocity field locator, the timeseries check and the date/value         *)
(* attribute parser.  Strings are sequences of one-character strings, so   *)
(* that the regular expressions of the source are matched character by     *)
(* character.                                                              *)
(***************************************************************************)
EXTENDS Integers, Sequences, FiniteSets, TLC

(***************************************************************************)
(* Characters and character classes of Python's re module.                 *)
(***************************************************************************)
DigitSeq == <<"0", "1", "2", "3", "4", "5", "6", "7", "8", "9">>

UpperSeq == <<"A", "B", "C", "D", "E", "F", "G", "H", "I", "J", "K", "L", "M",
              "N", "O", "P", "Q", "R", "S", "T", "U", "V", "W", "X", "Y", "Z">>

LowerSeq == <<"a", "b", "c", "d", "e", "f", "g", "h", "i", "j", "k", "l", "m",
              "n", "o", "p", "q", "r", "s", "t", "u", "v", "w", "x", "y", "z">>

Range(f) == {f[i] : i \in DOMAIN f}

\* \d
Digits == Range(DigitSeq)

\* int() of one decimal digit
DigitVal(c) == (CHOOSE i \in 1..10 : DigitSeq[i] = c) - 1

\* \s
WhiteSpace == {" ", "\t", "\n", "\r", "\f"}

\* str.lower() on one character
LowerChar(c) ==
    IF c \in Range(UpperSeq)
    THEN LowerSeq[CHOOSE i \in 1..26 : UpperSeq[i] = c]
    ELSE c

\* str.lower()
Lower(s) == [i \in 1..Len(s) |-> LowerChar(s[i])]

\* the character at position i of s, "" outside the string
At(s, i) == IF i \in 1..Len(s) THEN s[i] ELSE ""

\* s[i:j] of Python with 1-based, inclusive bounds: a slice is clipped to the
\* string
Slice(s, i, j) ==
    LET lo == IF i < 1 THEN 1 ELSE i
        hi == IF j > Len(s) THEN Len(s) ELSE j
    IN  IF lo > hi THEN <<>> ELSE SubSeq(s, lo, hi)

\* needle in s, Python's substring test
Contains(s, needle) ==
    \E i \in 1..(Len(s) - Len(needle) + 1) :
        SubSeq(s, i, i + Len(needle) - 1) = needle

\* the position of the first line break of s at or after position f, Len(s)+1
\* when there is none: "." matches any character but a line break
LineEndFrom(s, f) ==
    IF \E n \in f..Len(s) : s[n] = "\n"
    THEN CHOOSE n \in f..Len(s) : s[n] = "\n" /\ \A m \in f..(n - 1) : s[m] # "\n"
    ELSE Len(s) + 1

LineEnd(s) == LineEndFrom(s, 1)

\* The date pattern rgx_dt of checkVectorLayerTimeseries and of
\* extractDateValueAttributes has five groups: 1) any text, 2) the date
\* (19|20)\d{2}[\s\-\._]?[01]\d[\s\-\.]?[0123]\d, 3) the century, then an optional
\* T, 4) the optional time [012]\d[:\.]?[0-5]\d[0-5]?\d?, 5) any text.
\* [\s\-\._] between year and month
DateSep1 == WhiteSpace \cup {"-", ".", "_"}

\* [\s\-\.] between month and day
DateSep2 == WhiteSpace \cup {"-", "."}

\* [:\.] between hour and minute
TimeSep == {":", "."}

\* Group 2 tried at position i: the position after the date, 0 when the date
\* does not match there.  An optional separator is a non-digit and a digit
\* must follow it, so the greedy choice is the only one that can succeed.
MatchDate(s, i) ==
    LET j  == i + 4
        j1 == IF At(s, j) \in DateSep1 THEN j + 1 ELSE j
        k  == j1 + 2
        k1 == IF At(s, k) \in DateSep2 THEN k + 1 ELSE k
    IN  IF /\ <<At(s, i), At(s, i + 1)>> \in {<<"1", "9">>, <<"2", "0">>}
           /\ At(s, i + 2) \in Digits
           /\ At(s, i + 3) \in Digits
           /\ At(s, j1) \in {"0", "1"}
           /\ At(s, j1 + 1) \in Digits
           /\ At(s, k1) \in {"0", "1", "2", "3"}
           /\ At(s, k1 + 1) \in Digits
        THEN k1 + 2
        ELSE 0

\* Group 4 tried at position p: the position after the time, 0 when the time
\* does not match there.  [0-5]? and \d? are greedy and nothing after them can
\* fail, so each takes its character whenever it is there.
MatchTime(s, p) ==
    LET q  == p + 2
        q1 == IF At(s, q) \in TimeSep THEN q + 1 ELSE q
        r  == q1 + 2
        r1 == IF At(s, r) \in {"0", "1", "2", "3", "4", "5"} THEN r + 1 ELSE r
        r2 == IF At(s, r1) \in Digits THEN r1 + 1 ELSE r1
    IN  IF /\ At(s, p) \in {"0", "1", "2"}
           /\ At(s, p + 1) \in Digits
           /\ At(s, q1) \in {"0", "1", "2", "3", "4", "5"}
           /\ At(s, q1 + 1) \in Digits
        THEN r2
        ELSE 0

\* The groups of a match whose date is s[i..e-1], with the optional T passed
\* at e1 and the time s[e1..t-1] (t = 0: no time).  The trailing (.*) stops at
\* a line break.
Groups(s, i, e, e1, t) ==
    [matched |-> TRUE,
     group1  |-> Slice(s, 1, i - 1),
     group2  |-> Slice(s, i, e - 1),
     group4  |-> IF t # 0 THEN Slice(s, e1, t - 1) ELSE <<>>,
     group5  |-> IF t # 0 THEN Slice(s, t, LineEndFrom(s, t) - 1)
                          ELSE Slice(s, e1, LineEndFrom(s, e1) - 1)]

\* T? after the date that ends before e: greedy, and what follows is optional,
\* so a T that is there is taken.  ignorecase is the re.IGNORECASE flag, which
\* only the literal T of the pattern is sensitive to.
SkipT(s, e, ignorecase) ==
    IF At(s, e) \in (IF ignorecase THEN {"T", "t"} ELSE {"T"}) THEN e + 1 ELSE e

\* the optional time tried after the T
GroupsAfterT(s, i, e, e1) == Groups(s, i, e, e1, MatchTime(s, e1))

\* the match whose date starts at i
GroupsAt(s, i, ignorecase) ==
    GroupsAfterT(s, i, MatchDate(s, i), SkipT(s, MatchDate(s, i), ignorecase))

\* pattern.match(s): group 1 is greedy, so the date is taken at the last
\* position of the first line where it matches; the pattern need not reach
\* the end of s.
PatternMatch(s, ignorecase) ==
    LET starts == {i \in 1..LineEnd(s) : MatchDate(s, i) # 0}
    IN  IF starts = {}
        THEN [matched |-> FALSE]
        ELSE GroupsAt(s, CHOOSE x \in starts : \A y \in starts : y <= x, ignorecase)

\* re.sub(r'[\s:\.\-_]?', '', s): every separator character is deleted
StripSeparators(s) ==
    SelectSeq(s, LAMBDA c : c \notin (WhiteSpace \cup {":", ".", "-", "_"}))

\* Python's "any(ele in s for ele in keys)"
ContainsAny(s, keys) == \E k \in keys : Contains(s, k)

\* keys_uncertainty = ['err', 'sigma', 'std']
keys_uncertainty ==
    {<<"e", "r", "r">>, <<"s", "i", "g", "m", "a">>, <<"s", "t", "d">>}

(***************************************************************************)
(* float(value).  A value of the mapping is a number, a string or None     *)
(* (QGIS NULL); a float is mant / 10^scale with no trailing zero in mant,  *)
(* or not-a-number.                                                        *)
(***************************************************************************)
NaN == [nan |-> TRUE]

RECURSIVE Normalize(_, _)
Normalize(mant, scale) ==
    IF scale > 0 /\ mant % 10 = 0
    THEN Normalize(mant \div 10, scale - 1)
    ELSE [nan |-> FALSE, mant |-> mant, scale |-> scale]

\* the number written by a string of digits
RECURSIVE DigitsVal(_)
DigitsVal(s) ==
    IF s = <<>> THEN 0
    ELSE 10 * DigitsVal(SubSeq(s, 1, Len(s) - 1)) + DigitVal(s[Len(s)])

\* s without its leading and trailing white space
RECURSIVE Trim(_)
Trim(s) ==
    IF s # <<>> /\ s[1] \in WhiteSpace THEN Trim(Tail(s))
    ELSE IF s # <<>> /\ s[Len(s)] \in WhiteSpace THEN Trim(SubSeq(s, 1, Len(s) - 1))
    ELSE s

\* float() of a string: white space around, a sign, digits with at most one
\* point and at least one digit, or nan; anything else is a ValueError.
\* (Exponents, underscores and infinities are not written by the values of
\* StrValues.)
FloatOfString(str) ==
    LET t      == Trim(str)
        signed == t # <<>> /\ t[1] \in {"+", "-"}
        body   == IF signed THEN Tail(t) ELSE t
        points == {i \in 1..Len(body) : body[i] = "."}
        p      == IF points = {} THEN Len(body) + 1 ELSE CHOOSE i \in points : TRUE
        ip     == Slice(body, 1, p - 1)
        fp     == Slice(body, p + 1, Len(body))
        sign   == IF signed /\ t[1] = "-" THEN -1 ELSE 1
    IN  IF Lower(body) = <<"n", "a", "n">>
        THEN [raised |-> "", value |-> NaN]
        ELSE IF /\ Cardinality(points) <= 1
                /\ \A i \in 1..Len(ip) : ip[i] \in Digits
                /\ \A i \in 1..Len(fp) : fp[i] \in Digits
                /\ Len(ip) + Len(fp) > 0
        THEN [raised |-> "",
              value  |-> Normalize(sign * DigitsVal(ip \o fp), Len(fp))]
        ELSE [raised |-> "ValueError"]

\* float(value): a number converts, a string is parsed, None is a TypeError
Float(value) ==
    CASE value.type = "float" -> [raised |-> "", value |-> value.value]
      [] value.type = "str"   -> FloatOfString(value.value)
      [] OTHER                -> [raised |-> "TypeError"]

\* A variant of CoerceValue without the try/except: what float() raises leaves
\* the function.
CoerceValue_NoExcept(value) == Float(value)

\* lines 124-127, try: value = float(value) / except Exception: value = np.nan.
\* Nothing is raised past the except clause.
CoerceValue(value) ==
    IF Float(value).raised # "" THEN [raised |-> "", value |-> NaN] ELSE Float(value)

(***************************************************************************)
(* datetime.strptime(datetime_str, d_dt_fmt[len(datetime_str)])            *)
(***************************************************************************)
\* the lengths d_dt_fmt has a format for: %Y%m%d, %Y%m%d%H%M, %Y%m%d%H%M%S
d_dt_fmt == {8, 12, 14}

IsLeap(y) == (y % 4 = 0 /\ y % 100 # 0) \/ y % 400 = 0

DaysInMonth(y, m) ==
    CASE m \in {4, 6, 9, 11} -> 30
      [] m = 2               -> IF IsLeap(y) THEN 29 ELSE 28
      [] OTHER               -> 31

\* the number written by digits i..j of ds, 0 when ds is shorter
Field(ds, i, j) == IF Len(ds) >= j THEN DigitsVal(SubSeq(ds, i, j)) ELSE 0

\* strptime on a string of 8, 12 or 14 digits.  The directives match their
\* two-digit alternatives first and the whole string must be consumed, so the
\* parse succeeds exactly when every two-digit field is in range and the date
\* exists; otherwise strptime raises ValueError.
Strptime(ds) ==
    LET Y == Field(ds, 1, 4)
        m == Field(ds, 5, 6)
        d == Field(ds, 7, 8)
        H == Field(ds, 9, 10)
        M == Field(ds, 11, 12)
        S == Field(ds, 13, 14)
    IN  IF /\ m \in 1..12
           /\ d \in 1..DaysInMonth(Y, m)
           /\ H \in 0..23
           /\ M \in 0..59
           /\ S \in 0..59
        THEN [raised |-> "",
              date_obj |-> [year |-> Y, month |-> m, day |-> d,
                            hour |-> H, minute |-> M, second |-> S]]
        ELSE [raised |-> "ValueError"]

\* lines 135-136: the separators are stripped from date+time, the format is
\* looked up by length (KeyError when there is none) and the string parsed
ParseDate(p) ==
    LET datetime_str == StripSeparators(p.group2 \o p.group4)
    IN  IF Len(datetime_str) \notin d_dt_fmt
        THEN [raised |-> "KeyError"]
        ELSE Strptime(datetime_str)

\* line 137
Tag(p) == StripSeparators(p.group1 \o p.group5)

\* line 138
KeyAdd(s_tag) == IF ContainsAny(s_tag, keys_uncertainty) THEN "_sigma" ELSE ""

\* A variant of Component that tests for "v" before "h".
Component_VBeforeH(s_tag) ==
    IF s_tag = <<>> \/ Contains(s_tag, <<"l", "o", "s">>) THEN "los"
    ELSE IF Contains(s_tag, <<"v">>) THEN "v"
    ELSE IF Contains(s_tag, <<"h">>) THEN "h"
    ELSE "los"

\* lines 141-148: the component bucket of a tag
Component(s_tag) ==
    IF s_tag = <<>> \/ Contains(s_tag, <<"l", "o", "s">>) THEN "los"
    ELSE IF Contains(s_tag, <<"h">>) THEN "h"
    ELSE IF Contains(s_tag, <<"v">>) THEN "v"
    ELSE "los"

\* the bucket names of d_date_value
BucketName(component, key_add) ==
    CASE component = "los" /\ key_add = ""       -> "los"
      [] component = "h"   /\ key_add = ""       -> "h"
      [] component = "v"   /\ key_add = ""       -> "v"
      [] component = "los" /\ key_add = "_sigma" -> "los_sigma"
      [] component = "h"   /\ key_add = "_sigma" -> "h_sigma"
      [] component = "v"   /\ key_add = "_sigma" -> "v_sigma"

Buckets == {"los", "h", "v", "los_sigma", "h_sigma", "v_sigma"}

\* line 114
EmptyBuckets == [b \in Buckets |-> <<>>]

\* lines 140-148: the entry goes to the bucket of the tag, unless the date
\* did not parse
AssignEntry(d, s_tag, v) ==
    IF d.raised # ""
    THEN [kind |-> "raise", exc |-> d.raised]
    ELSE [kind   |-> "append",
          bucket |-> BucketName(Component(s_tag), KeyAdd(s_tag)),
          entry  |-> <<d.date_obj, v>>]

\* lines 124-148: an exception that leaves the coercion of the value ends the
\* call before the date is parsed
ParseAndAssign(p, c) ==
    IF c.raised # ""
    THEN [kind |-> "raise", exc |-> c.raised]
    ELSE AssignEntry(ParseDate(p), Tag(p), c.value)

\* lines 120-148 for the match p of a key
ProcessMatch(p, value) ==
    IF ~p.matched
    THEN [kind |-> "skip"]
    ELSE ParseAndAssign(p, CoerceValue(value))

\* lines 118-148, the body of the loop for one item of the mapping: the key
\* is skipped, or strptime or the format lookup raises, or one entry is
\* appended to one bucket
ProcessItem(key, value) == ProcessMatch(PatternMatch(Lower(key), FALSE), value)

\* A variant of Append2 that puts the entry in front: list.insert(0, entry).
Append2_InFront(list, entry) == <<entry>> \o list

\* list.append
Append2(list, entry) == Append(list, entry)

\* np.array(list, dtype=object): the rows in the order of the list
NpArray(list) ==
    [shape |-> IF list = <<>> THEN <<0>> ELSE <<Len(list), 2>>, data |-> list]

(***************************************************************************)
(* Layers.  A layer is None or an object with isValid(), type(),           *)
(* geometryType() and fields(); a field name is a string.                  *)
(***************************************************************************)
NoLayer == [isNone |-> TRUE]

\* the None a function returns in place of a field name
None == <<"None">>

MsgInvalidLayer ==
    "<span style=\"color:red;\">Invalid Layer: Please select a valid vector layer.</span>"

MsgNotVector ==
    "<span style=\"color:red;\">This is not a vector layer: Please select a valid vector layer.</span>"

MsgPointPolygon ==
    "<span style=\"color:red;\">Invalid Layer: Please select a valid point or polygon layer.</span>"

MsgNoVelocity ==
    "<span style=\"color:red;\">Invalid Layer: Please select a vector layer with valid velocity field.</span>"

MsgNoTimeseries ==
    "<span style=\"color:red;\">Invalid Layer: Please select a vector or raster layer with valid timeseries data."

\* A variant of checkVectorLayer whose geometry test lets line layers (1)
\* through.
checkVectorLayer_AcceptsLines(layer) ==
    IF layer = NoLayer THEN <<FALSE, MsgInvalidLayer>>
    ELSE IF ~layer.isValid THEN <<FALSE, MsgInvalidLayer>>
    ELSE IF layer.type # "VectorLayer" THEN <<FALSE, MsgNotVector>>
    ELSE IF layer.geometryType \notin {0, 1, 2} THEN <<FALSE, MsgPointPolygon>>
    ELSE <<TRUE, "">>

checkVectorLayer(layer) ==
    IF layer = NoLayer THEN <<FALSE, MsgInvalidLayer>>
    ELSE IF ~layer.isValid THEN <<FALSE, MsgInvalidLayer>>
    ELSE IF layer.type # "VectorLayer" THEN <<FALSE, MsgNotVector>>
    ELSE IF layer.geometryType \notin {0, 2} THEN <<FALSE, MsgPointPolygon>>
    ELSE <<TRUE, "">>

\* A variant of checkVectorLayerTimeseries that goes on to the fields when the
\* validator has failed.
checkVectorLayerTimeseries_ScansAnyway(layer) ==
    IF layer = NoLayer
    THEN checkVectorLayer(layer)
    ELSE IF \E i \in 1..Len(layer.fields) :
                PatternMatch(layer.fields[i], TRUE).matched
    THEN <<TRUE, "">>
    ELSE <<FALSE, MsgNoTimeseries>>

checkVectorLayerTimeseries(layer) ==
    LET validated == checkVectorLayer(layer)
    IN  IF validated[1] = FALSE
        THEN validated
        ELSE IF \E i \in 1..Len(layer.fields) :
                    PatternMatch(layer.fields[i], TRUE).matched
        THEN <<TRUE, "">>
        ELSE <<FALSE, MsgNoTimeseries>>

\* (vel|deformation.?rate|mean.?deformation) tried at position i, ignoring
\* case; ".?" is one character that is no line break, or nothing
VelocityAt(s, i) ==
    LET word(j, w) == Lower(Slice(s, j, j + Len(w) - 1)) = w
        gap(j)     == At(s, j) \notin {"", "\n"}
        deformation == <<"d", "e", "f", "o", "r", "m", "a", "t", "i", "o", "n">>
        rate == <<"r", "a", "t", "e">>
        mean == <<"m", "e", "a", "n">>
    IN  \/ word(i, <<"v", "e", "l">>)
        \/ /\ word(i, deformation)
           /\ (gap(i + 11) /\ word(i + 12, rate)) \/ word(i + 11, rate)
        \/ /\ word(i, mean)
           /\ (gap(i + 4) /\ word(i + 5, deformation)) \/ word(i + 4, deformation)

\* pattern.match(name) of getVectorVelocityFieldName: the leading (.*) stays
\* on the first line
VelocityPatternMatch(s) == \E i \in 1..LineEnd(s) : VelocityAt(s, i)

\* A variant of VelocityMatches without the test for uncertainty keywords.
VelocityMatches_KeepsUncertainty(fields) ==
    SelectSeq(fields, LAMBDA name : VelocityPatternMatch(name))

\* lines 36-45
VelocityMatches(fields) ==
    SelectSeq(fields, LAMBDA name :
        VelocityPatternMatch(name) /\ ~ContainsAny(name, keys_uncertainty))

\* line 51
velocity_field_name_options ==
    << <<"v", "e", "l", "o", "c", "i", "t", "y">>,
       <<"V", "E", "L">>,
       <<"m", "e", "a", "n", "_", "v", "e", "l", "o", "c", "i", "t", "y">>,
       <<"d", "e", "f", "o", "r", "m", "a", "t", "i", "o", "n", " ", "r", "a", "t", "e">> >>

\* lines 54-60 from option k on: the first match that holds the option
\* replaces field_name and the next option is tried; an option that no match
\* holds ends the loop (the for-else break)
RECURSIVE PreferenceLoop(_, _, _)
PreferenceLoop(matches, k, field_name) ==
    IF k > Len(velocity_field_name_options)
    THEN field_name
    ELSE LET hits == {i \in 1..Len(matches) :
                         Contains(matches[i], velocity_field_name_options[k])}
         IN  IF hits = {}
             THEN field_name
             ELSE PreferenceLoop(matches, k + 1,
                      matches[CHOOSE i \in hits : \A j \in hits : i <= j])

getVectorVelocityFieldName(layer) ==
    LET matches == VelocityMatches(layer.fields)
        field_name ==
            IF matches = <<>> THEN None
            ELSE IF Len(matches) > 1 THEN PreferenceLoop(matches, 1, matches[1])
            ELSE matches[1]
    IN  <<field_name, IF field_name = None THEN MsgNoVelocity ELSE "">>

(***************************************************************************)
(* The inputs the functions are called with.                               *)
(***************************************************************************)
MaxFields == 2

MaxVelocityFields == 3

MaxAttrs == 2

MaxRuns == 2

\* the sequences of at most n elements of S
SeqsUpTo(S, n) == UNION {[1..m -> S] : m \in 0..n}

\* the sequences without repetition: a mapping holds a key once
Injective(f) == \A i, j \in DOMAIN f : f[i] = f[j] => i = j

\* field names of the layers given to the validator and the timeseries check
FieldNames ==
    {<<"i", "d">>,
     <<"v", "e", "l", "o", "c", "i", "t", "y">>,
     <<"2", "0", "2", "0", "0", "1", "0", "1">>,
     <<"D", "2", "0", "2", "0", "0", "1", "0", "1">>,
     <<"2", "0", "2", "0", "_", "0", "1", "_", "0", "1">>,
     <<"h", "2", "0", "2", "0", "0", "1", "0", "1", "_", "e", "r", "r">>,
     <<"2", "0", "2", "0", "0", "1", "0", "1", "T", "1", "2", "3", "0">>}

\* None, and the layers of every validity, type and geometry type (0 point,
\* 1 line, 2 polygon, 3 unknown, 4 null); a raster layer has no geometry type
Layers ==
    {NoLayer}
    \cup [isValid : BOOLEAN, type : {"VectorLayer"}, geometryType : 0..4,
          fields : SeqsUpTo(FieldNames, MaxFields)]
    \cup [isValid : BOOLEAN, type : {"RasterLayer"},
          fields : SeqsUpTo(FieldNames, MaxFields)]

\* field names of the layers given to the velocity locator
VelocityFieldNames ==
    {<<"v", "e", "l", "o", "c", "i", "t", "y", "_", "b">>,
     <<"V", "E", "L", "_", "m", "e", "a", "n">>,
     <<"V", "E", "L", "_", "e", "r", "r">>,
     <<"d", "e", "f", "o", "r", "m", "a", "t", "i", "o", "n", "_", "r", "a", "t", "e", "_", "a">>,
     <<"m", "y", "_", "v", "e", "l", "o", "c", "i", "t", "y">>,
     <<"V", "E", "L", "_", "x">>,
     <<"h", "e", "i", "g", "h", "t">>,
     <<"m", "e", "a", "n", " ", "d", "e", "f", "o", "r", "m", "a", "t", "i", "o", "n">>,
     <<"d", "e", "f", "o", "r", "m", "a", "t", "i", "o", "n", " ", "r", "a", "t", "e">>,
     <<"m", "e", "a", "n", "_", "v", "e", "l", "o", "c", "i", "t", "y">>,
     <<"V", "E", "L", "O", "C", "I", "T", "Y", "_", "E", "R", "R">>,
     <<"v", "e", "l", "_", "s", "t", "d">>}

VelocityLayers ==
    [isValid : {TRUE}, type : {"VectorLayer"}, geometryType : {0},
     fields : SeqsUpTo(VelocityFieldNames, MaxVelocityFields)]

\* the parts a key of the one-key mappings is put together from
KeyPrefixes ==
    {<<>>,
     <<"h">>,
     <<"D">>}

\* years
KeyYears ==
    {<<"2", "0", "2", "0">>,
     <<"2", "0", "1", "2">>,
     <<"2", "0", "2", "1">>,
     <<"1", "9", "9", "9">>}

\* what stands between year and month and between month and day
KeySeparators ==
    {<<>>,
     <<"-">>,
     <<"_">>,
     <<".">>,
     <<" ">>}

\* months
KeyMonths ==
    {<<"0", "1">>,
     <<"1", "2">>,
     <<"1", "3">>}

\* days
KeyDays ==
    {<<"0", "1">>,
     <<"1", "0">>,
     <<"3", "0">>}

\* what follows the date
KeyTimes ==
    {<<>>,
     <<"1", "2", "3", "0">>,
     <<"1", "2", ":", "3", "0">>,
     <<"1", "2", "3", "0", "4", "5">>,
     <<"1", "2", "3", "0", "5">>,
     <<"T", "1", "2", "3", "0">>}

\* what follows the time
KeySuffixes ==
    {<<>>,
     <<"_", "e", "r", "r">>,
     <<"7">>}

Keys ==
    {a \o y \o s1 \o m \o s2 \o d \o t \o z :
        a \in KeyPrefixes, y \in KeyYears, s1 \in KeySeparators, m \in KeyMonths,
        s2 \in KeySeparators, d \in KeyDays, t \in KeyTimes, z \in KeySuffixes}

\* keys of the mappings of several attributes
AttributeKeys ==
    {<<"2", "0", "2", "0", "0", "1", "0", "2">>,
     <<"h", "2", "0", "2", "0", "0", "1", "0", "1", "_", "e", "r", "r">>,
     <<"V", "_", "2", "0", "2", "0", "0", "1", "0", "3">>,
     <<"D", "2", "0", "1", "9", "1", "2", "3", "1">>,
     <<"v", "h", "2", "0", "2", "0", "0", "1", "0", "1">>,
     <<"2", "0", "2", "0", "0", "1", "0", "1", "_", "s", "t", "d">>,
     <<"v", "2", "0", "2", "0", "0", "1", "0", "4", "s", "i", "g", "m", "a">>,
     <<"2", "0", "2", "0", "0", "2", "3", "0">>,
     <<"i", "d">>}

\* attribute values: the float 5.3, the string "NULL", and None
Values ==
    {[type |-> "float", value |-> [nan |-> FALSE, mant |-> 53, scale |-> 1]],
     [type |-> "str", value |-> <<"N", "U", "L", "L">>],
     [type |-> "NoneType"]}

\* dict.items(): the mappings as sequences of <<key, value>> in iteration
\* order, each key once
Mappings ==
    {a \in SeqsUpTo(AttributeKeys \X Values, MaxAttrs) :
        Injective([i \in DOMAIN a |-> a[i][1]])}

(***************************************************************************)
(* The state: the arguments of the call, the function called and where it  *)
(* is, the locals of extractDateValueAttributes, and what was returned.    *)
(***************************************************************************)
VARIABLES
    layer,          \* the layer argument
    attributes,     \* the attributes argument, in iteration order
    fn,             \* the function called, "" before the call
    pc,             \* "call", "loop", "returned" or "raised"
    idx,            \* the items of attributes the loop has consumed
    d_date_value,   \* the six buckets
    ret,            \* the tuple a layer function returned
    exc,            \* the exception that left the function
    prev,           \* the buckets the call before this one returned
    runs            \* the calls of extractDateValueAttributes that returned

vars == <<layer, attributes, fn, pc, idx, d_date_value, ret, exc, prev, runs>>

InitLocals ==
    /\ fn = ""
    /\ pc = "call"
    /\ idx = 0
    /\ d_date_value = EmptyBuckets
    /\ ret = <<>>
    /\ exc = ""
    /\ prev = EmptyBuckets
    /\ runs = 0

InitLayer ==
    /\ layer \in Layers
    /\ attributes = <<>>
    /\ InitLocals

InitVelocity ==
    /\ layer \in VelocityLayers
    /\ attributes = <<>>
    /\ InitLocals

\* one field name, as the key of a mapping and as the field of a point layer
InitKey ==
    /\ \E key \in Keys :
        /\ attributes = << <<key, [type |-> "str", value |-> <<"5", ".", "3">>]>> >>
        /\ layer = [isValid |-> TRUE, type |-> "VectorLayer", geometryType |-> 0,
                    fields |-> <<key>>]
    /\ InitLocals

InitAttrs ==
    /\ layer = NoLayer
    /\ attributes \in Mappings
    /\ InitLocals

CheckVectorLayer ==
    /\ pc = "call"
    /\ fn' = "checkVectorLayer"
    /\ ret' = checkVectorLayer(layer)
    /\ pc' = "returned"
    /\ UNCHANGED <<layer, attributes, idx, d_date_value, exc, prev, runs>>

CheckVectorLayerTimeseries ==
    /\ pc = "call"
    /\ fn' = "checkVectorLayerTimeseries"
    /\ ret' = checkVectorLayerTimeseries(layer)
    /\ pc' = "returned"
    /\ UNCHANGED <<layer, attributes, idx, d_date_value, exc, prev, runs>>

GetVectorVelocityFieldName ==
    /\ pc = "call"
    /\ fn' = "getVectorVelocityFieldName"
    /\ ret' = getVectorVelocityFieldName(layer)
    /\ pc' = "returned"
    /\ UNCHANGED <<layer, attributes, idx, d_date_value, exc, prev, runs>>

\* lines 110-115: the call makes its own empty buckets
ExtractCall ==
    /\ pc = "call"
    /\ fn' = "extractDateValueAttributes"
    /\ d_date_value' = EmptyBuckets
    /\ idx' = 0
    /\ pc' = "loop"
    /\ UNCHANGED <<layer, attributes, ret, exc, prev, runs>>

\* what one turn of the loop does with the outcome r of its item
LoopTurn(r) ==
    /\ idx' = idx + 1
    /\ pc' = IF r.kind = "raise" THEN "raised" ELSE "loop"
    /\ exc' = IF r.kind = "raise" THEN r.exc ELSE exc
    /\ d_date_value' =
        IF r.kind = "append"
        THEN [d_date_value EXCEPT ![r.bucket] = Append2(@, r.entry)]
        ELSE d_date_value

\* lines 116-148: one turn of the loop over attributes.items()
ExtractItem ==
    /\ pc = "loop"
    /\ idx < Len(attributes)
    /\ LoopTurn(ProcessItem(attributes[idx + 1][1], attributes[idx + 1][2]))
    /\ UNCHANGED <<layer, attributes, fn, ret, prev, runs>>

\* lines 150-155: every bucket becomes an array and the buckets are returned
ExtractReturn ==
    /\ pc = "loop"
    /\ idx = Len(attributes)
    /\ d_date_value' = [b \in Buckets |-> NpArray(d_date_value[b])]
    /\ pc' = "returned"
    /\ runs' = runs + 1
    /\ UNCHANGED <<layer, attributes, fn, idx, ret, exc, prev>>

\* the function is called again on the same mapping: lines 110-115 again
ExtractAgain ==
    /\ pc = "returned"
    /\ fn = "extractDateValueAttributes"
    /\ runs < MaxRuns
    /\ prev' = d_date_value
    /\ d_date_value' = EmptyBuckets
    /\ idx' = 0
    /\ pc' = "loop"
    /\ UNCHANGED <<layer, attributes, fn, ret, exc, runs>>

NextLayer == CheckVectorLayer \/ CheckVectorLayerTimeseries

NextVelocity == GetVectorVelocityFieldName

NextExtract == ExtractCall \/ ExtractItem \/ ExtractReturn \/ ExtractAgain

NextKey == NextExtract \/ CheckVectorLayerTimeseries

\* the validator and the timeseries check on every layer
SpecLayer == InitLayer /\ [][NextLayer]_vars

\* the velocity locator on every list of fields
SpecVelocity == InitVelocity /\ [][NextVelocity]_vars

\* the attribute parser and the timeseries check on one field name
SpecKey == InitKey /\ [][NextKey]_vars

\* the attribute parser on the mappings of several attributes
SpecAttrs == InitAttrs /\ [][NextExtract]_vars

(***************************************************************************)
(* Properties of the layer validator and the timeseries check, under       *)
(* SpecLayer.                                                              *)
(***************************************************************************)
\* the layers that have a geometry type: the vector layers, valid or not
HasGeometryType(l) == l # NoLayer /\ l.type = "VectorLayer"

\* the layers the validator accepts
PointOrPolygonLayer(l) ==
    /\ l # NoLayer
    /\ l.isValid
    /\ l.type = "VectorLayer"
    /\ l.geometryType \in {0, 2}

\* C6 as stated: for every layer whose geometryType is neither 0 nor 2,
\* checkVectorLayer returns False with the point-or-polygon message, and it
\* returns (True, "") only for a non-null, valid vector layer of geometry
\* type 0 or 2.
C6_AnyLayerOutsidePointPolygon ==
    (fn = "checkVectorLayer" /\ pc = "returned") =>
        /\ (HasGeometryType(layer) /\ layer.geometryType \notin {0, 2})
              => ret = <<FALSE, MsgPointPolygon>>
        /\ ret = <<TRUE, "">> => PointOrPolygonLayer(layer)

\* C6 amended: for every layer whose geometryType is neither 0 nor 2,
\* checkVectorLayer returns False; the message is the point-or-polygon message
\* when the layer is a valid vector layer, and the invalid-layer message when
\* the layer reports itself invalid.  It returns (True, "") only for a
\* non-null, valid vector layer of geometry type 0 or 2.
C6_ValidLayerOutsidePointPolygon ==
    (fn = "checkVectorLayer" /\ pc = "returned") =>
        /\ (HasGeometryType(layer) /\ layer.geometryType \notin {0, 2})
              => ret = <<FALSE, IF layer.isValid THEN MsgPointPolygon
                                                 ELSE MsgInvalidLayer>>
        /\ ret = <<TRUE, "">> => PointOrPolygonLayer(layer)

\* a valid line layer was refused with the point-or-polygon message
C6_Witness ==
    /\ fn = "checkVectorLayer"
    /\ pc = "returned"
    /\ HasGeometryType(layer)
    /\ layer.isValid
    /\ layer.geometryType = 1
    /\ ret = <<FALSE, MsgPointPolygon>>

\* a field name that the date pattern matches somewhere on its first line
HasDateToken(name) == \E i \in 1..LineEnd(name) : MatchDate(name, i) # 0

\* C5: checkVectorLayerTimeseries returns the validator's (False, message)
\* when checkVectorLayer fails, whatever the fields are; when the validator
\* succeeds it returns (True, "") if some field name matches the date pattern
\* and (False, the timeseries message) if none does, also with no fields.
C5_TimeseriesCheck ==
    (fn = "checkVectorLayerTimeseries" /\ pc = "returned") =>
        IF ~PointOrPolygonLayer(layer)
        THEN /\ ret = checkVectorLayer(layer)
             /\ ret[1] = FALSE
        ELSE IF \E i \in 1..Len(layer.fields) : HasDateToken(layer.fields[i])
        THEN ret = <<TRUE, "">>
        ELSE ret = <<FALSE, MsgNoTimeseries>>

\* a line layer with a dated field was refused with the validator's message
C5_Witness ==
    /\ fn = "checkVectorLayerTimeseries"
    /\ pc = "returned"
    /\ HasGeometryType(layer)
    /\ layer.isValid
    /\ layer.geometryType = 1
    /\ \E i \in 1..Len(layer.fields) : HasDateToken(layer.fields[i])
    /\ ret = <<FALSE, MsgPointPolygon>>

(***************************************************************************)
(* Properties of the velocity locator, under SpecVelocity.                 *)
(***************************************************************************)
\* the positions of the candidate fields: the name matches the velocity
\* pattern and holds no uncertainty keyword
Candidates(fields) ==
    {i \in 1..Len(fields) :
        /\ VelocityPatternMatch(fields[i])
        /\ \A k \in keys_uncertainty : ~Contains(fields[i], k)}

Min(S) == CHOOSE x \in S : \A y \in S : x <= y

\* C4: the locator never returns a field with an uncertainty keyword; it
\* returns (None, a message) exactly when there is no candidate, otherwise a
\* candidate with an empty message, and the candidate when there is one only.
C4_LocatorReturnsCandidate ==
    (fn = "getVectorVelocityFieldName" /\ pc = "returned") =>
        LET cands == Candidates(layer.fields)
        IN  /\ (ret[1] = None) <=> (cands = {})
            /\ ret[1] = None => ret[2] # ""
            /\ ret[1] # None =>
                /\ ret[2] = ""
                /\ \E i \in cands : layer.fields[i] = ret[1]
                /\ \A k \in keys_uncertainty : ~Contains(ret[1], k)
            /\ Cardinality(cands) = 1 => ret[1] = layer.fields[Min(cands)]

\* fields VEL_mean, VEL_err: VEL_mean was returned
C4_Witness ==
    /\ fn = "getVectorVelocityFieldName"
    /\ pc = "returned"
    /\ layer.fields = << <<"V", "E", "L", "_", "m", "e", "a", "n">>,
                         <<"V", "E", "L", "_", "e", "r", "r">> >>
    /\ ret = << <<"V", "E", "L", "_", "m", "e", "a", "n">>, "" >>

\* the preference terms that occur in some candidate
TermsFound(fields) ==
    {k \in 1..Len(velocity_field_name_options) :
        \E i \in Candidates(fields) :
            Contains(fields[i], velocity_field_name_options[k])}

\* C3: with more than one candidate the locator returns the first candidate,
\* in field order, that contains the first preference term found in any
\* candidate, and the first candidate when no preference term is found.
C3_FirstPreferenceTermWins ==
    (/\ fn = "getVectorVelocityFieldName"
     /\ pc = "returned"
     /\ Cardinality(Candidates(layer.fields)) > 1) =>
        LET cands == Candidates(layer.fields)
            found == TermsFound(layer.fields)
        IN  IF found = {}
            THEN ret[1] = layer.fields[Min(cands)]
            ELSE ret[1] = layer.fields[Min({i \in cands :
                    Contains(layer.fields[i],
                             velocity_field_name_options[Min(found)])})]

(***************************************************************************)
(* Properties of the date/value parser.                                    *)
(***************************************************************************)
\* the entries of bucket b: a list while the loop runs, an array once returned
Entries(b) == IF pc = "returned" THEN d_date_value[b].data ELSE d_date_value[b]

\* all entries of the six buckets
AllEntries ==
    Entries("los") \o Entries("h") \o Entries("v")
        \o Entries("los_sigma") \o Entries("h_sigma") \o Entries("v_sigma")

\* the match of the lower-cased key of item i
KeyMatch(i) == PatternMatch(Lower(attributes[i][1]), FALSE)

\* the tag of a match: the text before and after the date/time token with the
\* separators stripped
TagOf(p) == StripSeparators(p.group1 \o p.group5)

Has(s_tag, word) == Contains(s_tag, word)

\* the bucket the tag selects: the component, and its _sigma variant if and
\* only if the tag holds err, sigma or std
BucketOfTag(s_tag) ==
    LET component ==
            IF s_tag = <<>> THEN "los"
            ELSE IF Has(s_tag, <<"l", "o", "s">>) THEN "los"
            ELSE IF Has(s_tag, <<"h">>) THEN "h"
            ELSE IF Has(s_tag, <<"v">>) THEN "v"
            ELSE "los"
        sigma == \/ Has(s_tag, <<"e", "r", "r">>)
                 \/ Has(s_tag, <<"s", "i", "g", "m", "a">>)
                 \/ Has(s_tag, <<"s", "t", "d">>)
    IN  IF sigma THEN component \o "_sigma" ELSE component

\* the bucket a match selects, "" when the key did not match
BucketOfMatch(p) == IF p.matched THEN BucketOfTag(TagOf(p)) ELSE ""

\* the pairs <<i, b>> of an item and the bucket its key selects
ItemBuckets == {<<i, BucketOfMatch(KeyMatch(i))>> : i \in 1..Len(attributes)}

\* C1: when the parser has consumed n items without raising, and so when it
\* returns, every bucket holds one entry for each consumed key that matches
\* the date pattern and whose tag selects that bucket, and no other entry: a
\* matching key has one entry in one bucket, a key that does not match none.
C1_OneEntryInTheBucketOfTheTag ==
    (fn = "extractDateValueAttributes" /\ pc \in {"loop", "returned"}) =>
        LET ib == ItemBuckets
        IN  \A b \in Buckets :
                Len(Entries(b)) = Cardinality({i \in 1..idx : <<i, b>> \in ib})

\* the mapping h20200101_err, id returned one entry, in h_sigma
C1_Witness ==
    /\ fn = "extractDateValueAttributes"
    /\ pc = "returned"
    /\ Len(attributes) = 2
    /\ attributes[1][1] = <<"h", "2", "0", "2", "0", "0", "1", "0", "1", "_", "e", "r", "r">>
    /\ attributes[2][1] = <<"i", "d">>
    /\ Len(Entries("h_sigma")) = 1
    /\ Len(AllEntries) = 1

\* the float a value stands for, not-a-number when float() refuses it
NumberOrNaN(value) == IF Float(value).raised # "" THEN NaN ELSE Float(value).value

\* the entry item i is to have: the timestamp of its key and the float of its
\* value
EntryOf(i) == <<ParseDate(KeyMatch(i)).date_obj, NumberOrNaN(attributes[i][2])>>

\* C7: a value that float() refuses never ends the parse: the parser raises
\* only where the date of a matching key does not parse, and when it returns,
\* every matching key has its entry at its place in its bucket, with the
\* timestamp of the key and the float of the value, not-a-number when the
\* value is no number.
C7_UncoercibleValueIsNaN ==
    fn = "extractDateValueAttributes" =>
        /\ pc = "raised" =>
            /\ KeyMatch(idx).matched
            /\ ParseDate(KeyMatch(idx)).raised = exc
        /\ pc = "returned" =>
            LET ib == ItemBuckets
            IN  \A x \in ib :
                    x[2] # "" =>
                        LET n == Cardinality({y \in ib : y[2] = x[2] /\ y[1] <= x[1]})
                        IN  /\ n <= Len(Entries(x[2]))
                            /\ Entries(x[2])[n] = EntryOf(x[1])

\* the mapping 20200102: "NULL", D20191231: 5.3 returned both entries, the
\* first with not-a-number
C7_Witness ==
    /\ fn = "extractDateValueAttributes"
    /\ pc = "returned"
    /\ Len(attributes) = 2
    /\ attributes[1][1] = <<"2", "0", "2", "0", "0", "1", "0", "2">>
    /\ attributes[1][2].type = "str"
    /\ attributes[1][2].value = <<"N", "U", "L", "L">>
    /\ attributes[2][2].type = "float"
    /\ Len(Entries("los")) = 2
    /\ Entries("los")[1][2] = NaN
    /\ Entries("los")[2][2] = [nan |-> FALSE, mant |-> 53, scale |-> 1]

\* the timestamps of the items of bucket b in iteration order, ib the pairs of
\* the items and their buckets
TimestampsOf(b, ib) ==
    LET items == SelectSeq([i \in 1..Len(attributes) |-> i],
                           LAMBDA i : <<i, b>> \in ib)
    IN  [n \in 1..Len(items) |-> ParseDate(KeyMatch(items[n])).date_obj]

\* t1 is later than t2
Later(t1, t2) ==
    \/ t1.year > t2.year
    \/ t1.year = t2.year /\ t1.month > t2.month
    \/ t1.year = t2.year /\ t1.month = t2.month /\ t1.day > t2.day

\* C10: in every returned bucket the timestamps follow the iteration order of
\* the keys they come from, and a second run on the same mapping returns the
\* same six buckets.
C10_IterationOrderKept ==
    (fn = "extractDateValueAttributes" /\ pc = "returned") =>
        /\ LET ib == ItemBuckets
           IN  \A b \in Buckets :
                   [n \in 1..Len(Entries(b)) |-> Entries(b)[n][1]]
                       = TimestampsOf(b, ib)
        /\ runs >= 2 => d_date_value = prev

\* a second run returned a bucket whose first entry is later than its second
C10_Witness ==
    /\ fn = "extractDateValueAttributes"
    /\ pc = "returned"
    /\ runs = 2
    /\ Len(Entries("los")) = 2
    /\ Later(Entries("los")[1][1], Entries("los")[2][1])
    /\ d_date_value = prev

\* the digits of a key
DigitsOf(s) == SelectSeq(s, LAMBDA c : c \in Digits)

\* a key made of a prefix without digits, a token of 8, 12 or 14 digits that
\* writes a date and time that exist, with the year in 1900..2099, and a
\* suffix without digits
TokenKey(s) ==
    LET tok == DigitsOf(s)
    IN  /\ Len(tok) \in {8, 12, 14}
        /\ \E a \in 0..Len(s) : Slice(s, a + 1, a + Len(tok)) = tok
        /\ Field(tok, 1, 4) \in 1900..2099
        /\ Field(tok, 5, 6) \in 1..12
        /\ Field(tok, 7, 8) \in 1..DaysInMonth(Field(tok, 1, 4), Field(tok, 5, 6))
        /\ Field(tok, 9, 10) \in 0..23
        /\ Field(tok, 11, 12) \in 0..59
        /\ Field(tok, 13, 14) \in 0..59

\* the timestamp the token of a key writes, the time zero when it has none
TokenTimestamp(s) ==
    [year   |-> Field(DigitsOf(s), 1, 4),   month  |-> Field(DigitsOf(s), 5, 6),
     day    |-> Field(DigitsOf(s), 7, 8),   hour   |-> Field(DigitsOf(s), 9, 10),
     minute |-> Field(DigitsOf(s), 11, 12), second |-> Field(DigitsOf(s), 13, 14)]

\* C2: the entry recorded for a key made of a prefix without digits, a
\* digits-only token YYYYMMDD, YYYYMMDDHHMM or YYYYMMDDHHMMSS of a date and time
\* that exist and a suffix without digits carries exactly the timestamp of the
\* token.
C2_TokenTimestampRecorded ==
    (/\ fn = "extractDateValueAttributes"
     /\ idx >= 1
     /\ TokenKey(attributes[1][1])) =>
        /\ pc # "raised"
        /\ Len(AllEntries) = 1
        /\ AllEntries[1][1] = TokenTimestamp(attributes[1][1])

\* C8: for every key that matches the date pattern the digits of the date and
\* time groups are 8, 12 or 14, so the format lookup never fails.
C8_LengthHasAFormat ==
    fn = "extractDateValueAttributes" =>
        /\ pc = "raised" => exc # "KeyError"
        /\ \A i \in 1..idx :
            KeyMatch(i).matched =>
                Len(StripSeparators(KeyMatch(i).group2 \o KeyMatch(i).group4))
                    \in {8, 12, 14}

\* the separators the date may hold between year and month and between month
\* and day: space, -, . and _
DateSeparators == {" ", "-", ".", "_"}

\* the date token YYYY[sep]MM[sep]DD at position i of s, either separator any
\* one of the four or absent
DateTokenAt(s, i) ==
    \E a \in {0, 1}, b \in {0, 1} :
        /\ <<At(s, i), At(s, i + 1)>> \in {<<"1", "9">>, <<"2", "0">>}
        /\ At(s, i + 2) \in Digits
        /\ At(s, i + 3) \in Digits
        /\ a = 1 => At(s, i + 4) \in DateSeparators
        /\ At(s, i + 4 + a) \in {"0", "1"}
        /\ At(s, i + 5 + a) \in Digits
        /\ b = 1 => At(s, i + 6 + a) \in DateSeparators
        /\ At(s, i + 6 + a + b) \in {"0", "1", "2", "3"}
        /\ At(s, i + 7 + a + b) \in Digits

\* C9: every key that holds a date token YYYY[sep]MM[sep]DD, each separator any
\* of space, -, . and _ in either place, is processed by the parser (not
\* skipped), and the timeseries check accepts a layer with that field name.
C9_EverySeparatorInBothPlaces ==
    (\E i \in 1..Len(attributes[1][1]) : DateTokenAt(Lower(attributes[1][1]), i)) =>
        /\ (fn = "extractDateValueAttributes" /\ idx >= 1) =>
              (pc = "raised" \/ AllEntries # <<>>)
        /\ (fn = "checkVectorLayerTimeseries" /\ pc = "returned") => ret[1] = TRUE

====
